---- MODULE Spec2Model ----
\* Model of strongarm's ObjcRuntimeDataParser
\* (src/strongarm/macho/objc_runtime_data_parser.py): the selrefs pass, the
\* classlist / method-list pass and the selref queries, over a small Mach-O
\* image whose ObjC structures cover the well-formed and the degenerate shapes;
\* and of MachoAnalyzer and ObjcFunctionAnalyzer as their specification and
\* tests (src/tests) describe them.
EXTENDS Integers, Sequences, FiniteSets, TLC

VARIABLES
    binary,       \* the MachoBinary handed to the parser (never written)
    pc,           \* where __init__ is: "selrefs", "classes", "ready", "failed"
    cursor,       \* index in the classlist of the pointer parsed next
    selrefs,      \* self._selrefs
    classes,      \* self.classes (parsed_objc_classes while step 2 runs)
    parsed_from,  \* history: for classes[c], its classlist index and the
                  \* method entries read for it
    sym_to_dylib_path,  \* self._sym_to_dylib_path
    query,        \* the last query made and what it returned
    images,              \* the parsed Images (slices) by identity (never written)
    analyzer_registry,   \* the registry Image -> analyzer of MachoAnalyzer
    analyzer_instances,  \* every MachoAnalyzer constructed so far, in order
    handed_out,          \* history: per Image, the instances get_analyzer returned
    raised_before,       \* history: an analyzer query has raised
    lookup               \* the last analyzer query made and what it returned

parser_vars == <<binary, pc, cursor, selrefs, classes, parsed_from, sym_to_dylib_path, query>>

analyzer_vars == <<images, analyzer_registry, analyzer_instances, handed_out, raised_before, lookup>>

vars == <<parser_vars, analyzer_vars>>

\* ---------------------------------------------------------------- bounds

\* Most entries of __objc_selrefs / __objc_classlist in an image.
MaxSelrefs == 2
MaxClasses == 2

\* Most symbols in the undefined slice of the symbol table.
MaxUndef == 2

\* ---------------------------------------------------------------- values

\* Python's Optional: None is the empty tuple, a present value x is <<x>>.
None == <<>>
Some(x) == <<x>>

SeqUpTo(S, n) == UNION {[1..k -> S] : k \in 0..n}

MaxOf(S) == CHOOSE x \in S : \A y \in S : y <= x

\* x & ~0x3 on a non-negative integer: the low two bits cleared.
ClearLowTwoBits(x) == x - (x % 4)

\* ---------------------------------------------------------------- image
\* The bytes of the image, decoded at the addresses the parser reads.

\* get_virtual_base() values, sizeof(platform_word_type) values and the
\* address of the __objc_selrefs section.
VirtualBases == {16}
WordSizes == {8}
SelrefSectAddresses == {112}

\* One segment: [vmaddr, vmaddr + vmsize) is mapped at file offset fileoff.
Segment(vbase) == [vmaddr |-> vbase, vmsize |-> 128, fileoff |-> 0]

\* C strings of the image by virtual address (__objc_methname, __objc_classname).
\* 17 and 19 hold equal text at different addresses; 18 is the empty literal.
CStrings ==
    (16 :> "DTLabel") @@ (17 :> "init") @@ (18 :> "") @@ (19 :> "init")
    @@ (20 :> "ClsB") @@ (21 :> "ClsC") @@ (22 :> "ClsD") @@ (23 :> "ClsE")
    @@ (24 :> "ClsF") @@ (26 :> "/usr/lib/libobjc.A.dylib")
    @@ (30 :> "/System/Library/Frameworks/UIKit.framework/UIKit")

\* Pointers a selref or a method entry's name field may hold.
NamePtrs == {17, 18, 19}

\* Method lists by file offset: the declared count and the entries whose bytes
\* are present after the header. Entry = (name pointer, raw imp).
MethEnt(n, i) == [name |-> n, implementation |-> i]

MethLists ==
    (32 :> [methcount |-> 2, entries |-> <<MethEnt(17, 100), MethEnt(18, 105)>>])
    @@ (36 :> [methcount |-> 2, entries |-> <<MethEnt(17, 108), MethEnt(17, 108)>>])
    @@ (40 :> [methcount |-> 1, entries |-> <<MethEnt(19, 2)>>])
    @@ (44 :> [methcount |-> 2, entries |-> <<MethEnt(18, 112)>>])

\* struct __objc_data by virtual address: name pointer and base_methods
\* (a virtual address: 48, 52, 56, 60 are file offsets 32, 36, 40, 44).
\* 15 lies below the virtual base; 200 lies outside every segment.
DataStructs ==
    (64 :> [name |-> 16, base_methods |-> 48])
    @@ (68 :> [name |-> 20, base_methods |-> 52])
    @@ (72 :> [name |-> 21, base_methods |-> 0])
    @@ (76 :> [name |-> 15, base_methods |-> 48])
    @@ (80 :> [name |-> 22, base_methods |-> 200])
    @@ (84 :> [name |-> 23, base_methods |-> 56])
    @@ (88 :> [name |-> 24, base_methods |-> 60])

\* struct __objc_class by virtual address: the data field, flag bits included.
ClassStructs ==
    (96 :> [data |-> 64]) @@ (97 :> [data |-> 69]) @@ (98 :> [data |-> 74])
    @@ (99 :> [data |-> 79]) @@ (100 :> [data |-> 80]) @@ (101 :> [data |-> 84])
    @@ (102 :> [data |-> 88]) @@ (103 :> [data |-> 200])

ClassPtrs == DOMAIN ClassStructs

\* What a read of a method entry past the bytes present may give: an error
\* (None) or an entry made of whatever bytes follow.
BeyondOutcomes == {None, Some(MethEnt(17, 0)), Some(MethEnt(19, 116))}

\* Strings of the symbol string table by file offset (symtab.stroff + n_strx).
SymbolStrings == (161 :> "_NSLog") @@ (169 :> "_rand") @@ (180 :> "_main")

\* symtab.stroff values.
StringTableOffsets == {160}

\* Names a caller may ask path_for_external_symbol about.
SymbolNames == {"_NSLog", "_rand", "_main", "_nosuch"}

\* nlist entries: the defined symbol that precedes the undefined slice, and the
\* entries the undefined slice may hold. n_desc carries the library ordinal in
\* its high byte: 0 -> 0, 256 -> 1, 513 -> 2, 768 -> 3.
Nlist(strx, desc) == [n_strx |-> strx, n_desc |-> desc]

DefinedSymbol == Nlist(20, 0)

UndefinedSymbols == {Nlist(x, d) : x \in {1, 9}, d \in {0, 256, 513, 768}}

\* The LC_LOAD_DYLIB commands an image may hold, in load order: the file offset
\* of the command and the offset of the install name within it.
DylibCommand(off, name_off) == [fileoff |-> off, name_offset |-> name_off]

DylibCommandLists ==
    {<<>>, <<DylibCommand(2, 8)>>, <<DylibCommand(2, 8), DylibCommand(6, 8)>>}

\* ---------------------------------------------------------------- MachoBinary

\* file_offset_for_virtual_address: the offset in the segment that maps addr,
\* None for the UnmappedAddress failure.
file_offset_for_virtual_address(bin, addr) ==
    LET seg == Segment(bin.virtual_base)
    IN  IF addr >= seg.vmaddr /\ addr < seg.vmaddr + seg.vmsize
        THEN Some(seg.fileoff + (addr - seg.vmaddr))
        ELSE None

\* get_full_string_from_start_address(addr): the C string at a virtual address.
get_full_string_from_start_address(addr) == CStrings[addr]

\* get_full_string_from_start_address(offset, virtual=False): the string at a
\* file offset.
get_full_string_from_file_offset(offset) == SymbolStrings[offset]

\* ObjcClassRawStruct(binary, addr, virtual=True)
ObjcClassRawStruct(bin, addr) ==
    IF file_offset_for_virtual_address(bin, addr) = None THEN None
    ELSE Some(ClassStructs[addr])

\* ObjcDataRawStruct(binary, addr, virtual=True)
ObjcDataRawStruct(bin, addr) ==
    IF file_offset_for_virtual_address(bin, addr) = None THEN None
    ELSE Some(DataStructs[addr])

\* ObjcMethodListStruct(binary, file_ptr)
ObjcMethodListStruct(file_ptr) == MethLists[file_ptr]

\* ObjcMethodStruct(binary, method_entry_off) for the i-th entry after the
\* header of methlist: the entry when its bytes are present, else beyond.
ObjcMethodStruct(methlist, i, beyond) ==
    IF i <= Len(methlist.entries) THEN Some(methlist.entries[i]) ELSE beyond

\* ---------------------------------------------------------------- objects

\* Python truthiness of an Optional[int]: None and 0 are both falsy.
Truthy(opt) == opt # None /\ opt[1] # 0

\* ObjcSelref(source_address, destination_address, selector_literal)
ObjcSelref(src, dst, lit) ==
    [source_address |-> src, destination_address |-> dst, selector_literal |-> lit]

\* ObjcSelector(name, selref, implementation); selref and implementation are
\* Optional.
ObjcSelector(name, selref, implementation) ==
    [name |-> name, selref |-> selref, implementation |-> implementation,
     is_external_definition |-> ~Truthy(implementation)]

\* ObjcClass(name, selectors)
ObjcClass(name, selectors) == [name |-> name, selectors |-> selectors]

\* ---------------------------------------------------------------- selrefs pass

\* Faulty variant: a trailing part of a word counts as an entry.
parse_selrefs_RoundUp(bin) ==
    IF bin.selref_sect = None THEN <<>>
    ELSE LET sect == bin.selref_sect[1]
             entry_count == (sect.size + bin.word_size - 1) \div bin.word_size
         IN  [i \in 1..entry_count |->
                 LET selref_addr == sect.address + ((i - 1) * bin.word_size)
                     selref_val == sect.words[i]
                 IN  ObjcSelref(selref_addr, selref_val,
                                get_full_string_from_start_address(selref_val))]

\* _parse_selrefs: one ObjcSelref per word of __objc_selrefs, in section order;
\* the empty list when the image has no such section.
parse_selrefs(bin) ==
    IF bin.selref_sect = None THEN <<>>
    ELSE LET sect == bin.selref_sect[1]
             entry_count == sect.size \div bin.word_size
         IN  [i \in 1..entry_count |->
                 LET selref_addr == sect.address + ((i - 1) * bin.word_size)
                     selref_val == sect.words[i]
                 IN  ObjcSelref(selref_addr, selref_val,
                                get_full_string_from_start_address(selref_val))]

\* ---------------------------------------------------------------- ObjcDataEntryParser

\* _selref_pointer_map[name_ptr]: the map is filled in list order, so a later
\* selref with the same destination replaces an earlier one.
selref_pointer_map(srefs, name_ptr) ==
    LET at == {i \in 1..Len(srefs) : srefs[i].destination_address = name_ptr}
    IN  IF at = {} THEN None ELSE Some(srefs[MaxOf(at)])

\* Faulty variant: the selref is taken without looking at the method's name pointer.
get_selref_for_objc_method_AnySelref(srefs, objc_method) ==
    IF srefs = <<>> THEN None ELSE Some(srefs[Len(srefs)])

\* get_selref_for_objc_method: the selref whose destination is the method's
\* name pointer, None when there is none.
get_selref_for_objc_method(srefs, objc_method) ==
    selref_pointer_map(srefs, objc_method.name)

\* The reads of _get_selectors_from_methlist: entry i for i in range(methcount).
method_entries(methlist, beyond) ==
    [i \in 1..methlist.methcount |-> ObjcMethodStruct(methlist, i, beyond)]

\* Faulty variant: the entry's imp is stored as read, flag bits included.
selector_of_entry_NoMask(srefs, method_ent) ==
    ObjcSelector(get_full_string_from_start_address(method_ent.name),
                 get_selref_for_objc_method(srefs, method_ent),
                 Some(method_ent.implementation))

\* The body of the loop of _get_selectors_from_methlist for one entry read.
selector_of_entry(srefs, method_ent) ==
    LET imp == ClearLowTwoBits(method_ent.implementation)
    IN  ObjcSelector(get_full_string_from_start_address(method_ent.name),
                     get_selref_for_objc_method(srefs, method_ent),
                     Some(imp))

RECURSIVE DropRepeatedNames(_)
DropRepeatedNames(sels) ==
    IF sels = <<>> THEN <<>>
    ELSE LET front == DropRepeatedNames(SubSeq(sels, 1, Len(sels) - 1))
             last == sels[Len(sels)]
         IN  IF \E i \in 1..Len(front) : front[i].name = last.name
             THEN front ELSE Append(front, last)

\* Faulty variant: an entry whose name an earlier entry of the list bears is dropped.
get_selectors_from_methlist_Dedup(srefs, methlist, beyond) ==
    LET ents == method_entries(methlist, beyond)
    IN  IF \E i \in 1..methlist.methcount : ents[i] = None THEN None
        ELSE Some(DropRepeatedNames(
                 [i \in 1..methlist.methcount |-> selector_of_entry(srefs, ents[i][1])]))

\* _get_selectors_from_methlist: one selector per declared entry, in order.
\* None when the read of an entry fails.
get_selectors_from_methlist(srefs, methlist, beyond) ==
    LET ents == method_entries(methlist, beyond)
    IN  IF \E i \in 1..methlist.methcount : ents[i] = None THEN None
        ELSE Some([i \in 1..methlist.methcount |-> selector_of_entry(srefs, ents[i][1])])

\* _get_methlist: [raised, value]; value is None when base_methods is 0.
get_methlist(bin, data) ==
    IF data.base_methods = 0 THEN [raised |-> FALSE, value |-> None]
    ELSE LET methlist_file_ptr == file_offset_for_virtual_address(bin, data.base_methods)
         IN  IF methlist_file_ptr = None THEN [raised |-> TRUE, value |-> None]
             ELSE [raised |-> FALSE,
                   value |-> Some(ObjcMethodListStruct(methlist_file_ptr[1]))]

\* get_selectors: the selectors of one struct __objc_data; None when it raises.
get_selectors(bin, srefs, data, beyond) ==
    LET methlist_info == get_methlist(bin, data)
    IN  IF methlist_info.raised THEN None
        ELSE IF methlist_info.value = None THEN Some(<<>>)
        ELSE get_selectors_from_methlist(srefs, methlist_info.value[1], beyond)

\* ---------------------------------------------------------------- classlist pass

\* _get_objc_class_from_classlist_pointer: the struct __objc_class with the flag
\* bits of data cleared; None when the read raises.
get_objc_class_from_classlist_pointer(bin, entry_location) ==
    LET class_entry == ObjcClassRawStruct(bin, entry_location)
    IN  IF class_entry = None THEN None
        ELSE Some([class_entry[1] EXCEPT !.data = ClearLowTwoBits(@)])

\* Faulty variant: a name pointer equal to the virtual base is rejected too.
get_objc_data_from_objc_class_AtBase(bin, objc_class) ==
    LET data_entry == ObjcDataRawStruct(bin, objc_class.data)
    IN  IF data_entry = None THEN [raised |-> TRUE, value |-> None]
        ELSE IF data_entry[1].name <= bin.virtual_base
             THEN [raised |-> FALSE, value |-> None]
             ELSE [raised |-> FALSE, value |-> data_entry]

\* _get_objc_data_from_objc_class: [raised, value]; value is None for a data
\* entry whose name pointer lies below the virtual base.
get_objc_data_from_objc_class(bin, objc_class) ==
    LET data_entry == ObjcDataRawStruct(bin, objc_class.data)
    IN  IF data_entry = None THEN [raised |-> TRUE, value |-> None]
        ELSE IF data_entry[1].name < bin.virtual_base
             THEN [raised |-> FALSE, value |-> None]
             ELSE [raised |-> FALSE, value |-> data_entry]

\* _parse_objc_data_entry: the ObjcClass of one struct __objc_data; None when
\* reading its selectors raises.
parse_objc_data_entry(bin, srefs, objc_data_raw, beyond) ==
    LET name == get_full_string_from_start_address(objc_data_raw.name)
        selectors == get_selectors(bin, srefs, objc_data_raw, beyond)
    IN  IF selectors = None THEN None ELSE Some(ObjcClass(name, selectors[1]))

\* One iteration of the loop of _parse_static_objc_runtime_info over the
\* classlist pointer ptr: "raise", "skip" or "class" with the parsed class.
parse_classlist_entry(bin, srefs, ptr, beyond) ==
    LET objc_class == get_objc_class_from_classlist_pointer(bin, ptr)
    IN  IF objc_class = None THEN [kind |-> "raise", cls |-> None]
        ELSE LET objc_data_struct == get_objc_data_from_objc_class(bin, objc_class[1])
             IN  IF objc_data_struct.raised THEN [kind |-> "raise", cls |-> None]
                 ELSE IF objc_data_struct.value = None THEN [kind |-> "skip", cls |-> None]
                 ELSE LET parsed == parse_objc_data_entry(bin, srefs,
                                        objc_data_struct.value[1], beyond)
                      IN  IF parsed = None THEN [kind |-> "raise", cls |-> None]
                          ELSE [kind |-> "class", cls |-> parsed]

\* ---------------------------------------------------------------- linked dylibs

\* _library_ordinal_from_n_desc: (n_desc >> 8) & 0xff
library_ordinal_from_n_desc(n_desc) == (n_desc \div 256) % 256

\* A Python list subscript lst[idx]: a negative idx counts from the end, None
\* stands for IndexError.
ListItem(lst, idx) ==
    IF idx >= 0 /\ idx < Len(lst) THEN Some(lst[idx + 1])
    ELSE IF idx < 0 /\ 0 - idx <= Len(lst) THEN Some(lst[Len(lst) + idx + 1])
    ELSE None

\* _dylib_from_library_ordinal: binary.load_dylib_commands[ordinal - 1]
dylib_from_library_ordinal(bin, ordinal) ==
    ListItem(bin.load_dylib_commands, ordinal - 1)

\* The body of the loop of _parse_linked_dylib_symbols for the undefined symbol
\* undef_sym_idx (from 0): the pair <<symbol_name, source_name>>, None when
\* the subscript raises.
linked_dylib_symbol(bin, undef_sym_idx) ==
    LET symtab_idx == bin.dysymtab.iundefsym + undef_sym_idx
        sym == bin.symtab_contents[symtab_idx + 1]
        string_file_address == bin.symtab.stroff + sym.n_strx
        symbol_name == get_full_string_from_file_offset(string_file_address)
        library_ordinal == library_ordinal_from_n_desc(sym.n_desc)
        source_dylib == dylib_from_library_ordinal(bin, library_ordinal)
    IN  IF source_dylib = None THEN None
        ELSE LET source_name_addr == source_dylib[1].fileoff
                                       + source_dylib[1].name_offset + bin.virtual_base
             IN  Some(<<symbol_name,
                        get_full_string_from_start_address(source_name_addr)>>)

\* _parse_linked_dylib_symbols: the dict as a function from SymbolNames to an
\* Optional path (None: the name is no key); a later symbol of the same name
\* replaces an earlier one. None when the loop raises.
parse_linked_dylib_symbols(bin) ==
    LET n == bin.dysymtab.nundefsym
        pairs == [u \in 1..n |-> linked_dylib_symbol(bin, u - 1)]
    IN  IF \E u \in 1..n : pairs[u] = None THEN None
        ELSE Some([name \in SymbolNames |->
                 LET at == {u \in 1..n : pairs[u][1][1] = name}
                 IN  IF at = {} THEN None ELSE Some(pairs[MaxOf(at)][1][2])])

\* path_for_external_symbol(symbol)
path_for_external_symbol(paths, symbol) ==
    IF paths[symbol] # None THEN paths[symbol] ELSE None

\* ---------------------------------------------------------------- image layout
\* What the image holds for a classlist pointer, read off the structures.

\* The struct __objc_data of the class at ptr, None when its (masked) data
\* pointer lies outside every segment.
ImgData(bin, ptr) == ObjcDataRawStruct(bin, ClearLowTwoBits(ClassStructs[ptr].data))

\* The class's data.name pointer lies below the virtual base.
ImgNameBelowBase(bin, ptr) ==
    ImgData(bin, ptr) # None /\ ImgData(bin, ptr)[1].name < bin.virtual_base

\* The class's data pointer or base_methods pointer lies outside every segment.
ImgUnmapped(bin, ptr) ==
    \/ ImgData(bin, ptr) = None
    \/ /\ ImgData(bin, ptr)[1].base_methods # 0
       /\ file_offset_for_virtual_address(bin, ImgData(bin, ptr)[1].base_methods) = None

\* The method list of the class at ptr: None when base_methods is 0.
ImgMethlist(bin, ptr) ==
    LET data == ImgData(bin, ptr)[1]
    IN  IF data.base_methods = 0 THEN None
        ELSE Some(MethLists[file_offset_for_virtual_address(bin, data.base_methods)[1]])

\* The history record of a class parsed from classlist index idx: the method
\* entries read (beyond stands for a read past the bytes present), the count
\* the list declares and the number of entries present.
History(bin, idx, beyond) ==
    LET ml == ImgMethlist(bin, bin.classlist[idx])
    IN  IF ml = None
        THEN [index |-> idx, has_methlist |-> FALSE, entries |-> <<>>,
              declared |-> 0, available |-> 0]
        ELSE [index |-> idx, has_methlist |-> TRUE,
              entries |-> [i \in 1..ml[1].methcount |->
                              ObjcMethodStruct(ml[1], i, beyond)[1]],
              declared |-> ml[1].methcount,
              available |-> Len(ml[1].entries)]

\* ---------------------------------------------------------------- queries

\* Lexicographic order on <<class index, selector index>>.
Before(a, b) == a[1] < b[1] \/ (a[1] = b[1] /\ a[2] <= b[2])

\* All <<class index, selector index>> places of cls.
Places(cls) ==
    UNION {{<<c, k>> : k \in 1..Len(cls[c].selectors)} : c \in 1..Len(cls)}

\* Faulty variant: a selector without selref is not skipped, its missing source address
\* reading as None.
first_local_selector_NoSkip(cls, selref_addr) ==
    LET hits == {cs \in Places(cls) :
                    LET sel == cls[cs[1]].selectors[cs[2]]
                    IN  IF sel.selref = None THEN selref_addr = None
                        ELSE Some(sel.selref[1].source_address) = selref_addr}
    IN  IF hits = {} THEN <<>>
        ELSE CHOOSE h \in hits : \A g \in hits : Before(h, g)

\* Faulty variant: the loop does not return at the first match, the last match stands.
first_local_selector_Last(cls, selref_addr) ==
    LET hits == {cs \in Places(cls) :
                    /\ cls[cs[1]].selectors[cs[2]].selref # None
                    /\ Some(cls[cs[1]].selectors[cs[2]].selref[1].source_address) = selref_addr}
    IN  IF hits = {} THEN <<>>
        ELSE CHOOSE h \in hits : \A g \in hits : Before(g, h)

\* The loop of selector_for_selref over classes and their selectors: the place
\* <<class, selector>> of the first selector whose selref has source address
\* selref_addr, <<>> when the loop ends without a return.
first_local_selector(cls, selref_addr) ==
    LET hits == {cs \in Places(cls) :
                    /\ cls[cs[1]].selectors[cs[2]].selref # None
                    /\ Some(cls[cs[1]].selectors[cs[2]].selref[1].source_address) = selref_addr}
    IN  IF hits = {} THEN <<>>
        ELSE CHOOSE h \in hits : \A g \in hits : Before(h, g)

\* Faulty variant: the synthetic selector is given the selref's destination as its
\* implementation.
external_selector_DestAsImp(srefs, selref_addr) ==
    LET at == {i \in 1..Len(srefs) : Some(srefs[i].source_address) = selref_addr}
    IN  IF at = {} THEN None
        ELSE LET selref == srefs[CHOOSE i \in at : \A j \in at : i <= j]
             IN  Some(ObjcSelector(selref.selector_literal, Some(selref),
                                   Some(selref.destination_address)))

\* Faulty variant: the list of selrefs is not filtered by source address.
external_selector_Unfiltered(srefs, selref_addr) ==
    IF srefs = <<>> THEN None
    ELSE Some(ObjcSelector(srefs[1].selector_literal, Some(srefs[1]), None))

\* The tail of selector_for_selref: the selref of _selrefs at selref_addr made
\* into a selector without implementation, None when there is no such selref.
external_selector(srefs, selref_addr) ==
    LET at == {i \in 1..Len(srefs) : Some(srefs[i].source_address) = selref_addr}
    IN  IF at = {} THEN None
        ELSE LET selref == srefs[CHOOSE i \in at : \A j \in at : i <= j]
             IN  Some(ObjcSelector(selref.selector_literal, Some(selref), None))

\* selector_for_selref(selref_addr); selref_addr is Optional.
selector_for_selref(cls, srefs, selref_addr) ==
    LET h == first_local_selector(cls, selref_addr)
    IN  IF h # <<>> THEN Some(cls[h[1]].selectors[h[2]])
        ELSE external_selector(srefs, selref_addr)

\* MachoAnalyzer.imp_for_selref(selref_addr): the implementation of the
\* selector of the selref, None when there is none.
imp_for_selref(cls, srefs, selref_addr) ==
    LET sel == selector_for_selref(cls, srefs, selref_addr)
    IN  IF sel = None THEN None ELSE sel[1].implementation

\* Faulty variant: the inner loop leaves a class at its first selector of the name.
RECURSIVE imp_addresses_of_FirstOnly(_, _)
imp_addresses_of_FirstOnly(sels, selector) ==
    IF sels = <<>> THEN <<>>
    ELSE LET front == imp_addresses_of_FirstOnly(SubSeq(sels, 1, Len(sels) - 1), selector)
             objc_sel == sels[Len(sels)]
         IN  IF objc_sel.name = selector /\ front = <<>>
             THEN <<objc_sel.implementation>>
             ELSE front

\* get_method_imp_addresses(selector): the implementation of every selector
\* of that name, in class-list and method-list order.
RECURSIVE imp_addresses_of(_, _)
imp_addresses_of(sels, selector) ==
    IF sels = <<>> THEN <<>>
    ELSE LET front == imp_addresses_of(SubSeq(sels, 1, Len(sels) - 1), selector)
             objc_sel == sels[Len(sels)]
         IN  IF objc_sel.name = selector THEN Append(front, objc_sel.implementation)
             ELSE front

RECURSIVE get_method_imp_addresses(_, _)
get_method_imp_addresses(cls, selector) ==
    IF cls = <<>> THEN <<>>
    ELSE get_method_imp_addresses(SubSeq(cls, 1, Len(cls) - 1), selector)
         \o imp_addresses_of(cls[Len(cls)].selectors, selector)

\* ---------------------------------------------------------------- MachoAnalyzer

\* Identities of the Images (slices) a session holds.
ImageIds == {1, 2}

\* The __text section, the stride of its instructions, the __stubs section
\* and the stride of its entries, the first dyld-bound pointer slot and the
\* stride of the slots.
TextSection == [addr |-> 100, end |-> 116]
InstructionSize == 4
StubsAddr == 120
StubSize == 12
PointerSlotsAddr == 200
PointerSize == 8

TextAddresses ==
    {a \in TextSection.addr..(TextSection.end - 1) :
        (a - TextSection.addr) % InstructionSize = 0}

\* A symbol-table entry: a symbol defined in a code section (n_sect) at
\* n_value, or an undefined one.
Symbol(name, n_sect, n_value) == [name |-> name, n_sect |-> n_sect, n_value |-> n_value]

\* A record of the bind or lazy-bind stream: the pointer slot and the symbol
\* bound there.
BindRecord(address, name) == [address |-> address, name |-> name]

\* The layouts of the imports of an image: each import is bound lazily
\* (reached through a stub) or not (a data pointer).
ImportLayouts ==
    {<<>>,
     <<[name |-> "_NSLog", lazy |-> TRUE]>>,
     <<[name |-> "_NSLog", lazy |-> FALSE]>>,
     <<[name |-> "_rand", lazy |-> TRUE]>>,
     <<[name |-> "_NSLog", lazy |-> TRUE], [name |-> "_rand", lazy |-> TRUE]>>,
     <<[name |-> "_NSLog", lazy |-> FALSE], [name |-> "_rand", lazy |-> TRUE]>>}

\* The slots of the lazy imports among imports[1..j], in order.
RECURSIVE LazySlots(_, _)
LazySlots(imports, j) ==
    IF j = 0 THEN <<>>
    ELSE IF imports[j].lazy
         THEN Append(LazySlots(imports, j - 1), PointerSlotsAddr + PointerSize * (j - 1))
         ELSE LazySlots(imports, j - 1)

\* The image a linker lays out for the defined code symbols `defined`, the
\* ObjC method implementations `imps`, the entry point `entry` (None in a
\* library), the imports `imports` and the branch
\* instructions at `branches`: the symbol table holds the defined symbols and
\* then the undefined slice; import j owns pointer slot j; every lazy import
\* has a lazy-bind record and a stub that dereferences its slot, every other
\* import a bind record.
AnalyzerImage(defined, imps, entry, imports, branches) ==
    LET slot(j) == PointerSlotsAddr + PointerSize * (j - 1)
        lazy == {j \in 1..Len(imports) : imports[j].lazy}
    IN  [text |-> TextSection,
         symtab |-> defined \o [j \in 1..Len(imports) |-> Symbol(imports[j].name, FALSE, 0)],
         iundefsym |-> Len(defined),
         nundefsym |-> Len(imports),
         objc_imps |-> imps,
         entry_point |-> entry,
         binds |-> {BindRecord(slot(j), imports[j].name) : j \in (1..Len(imports)) \ lazy},
         lazy_binds |-> {BindRecord(slot(j), imports[j].name) : j \in lazy},
         stubs |-> LazySlots(imports, Len(imports)),
         branches |-> branches]

PlainDefined == <<Symbol("_main", TRUE, 100)>>

\* The images: they vary in their function entry points, in their imports, or
\* in their branch instructions.
AnalyzerImages ==
    {AnalyzerImage(d, i, e, <<>>, {104}) :
        d \in {<<>>, PlainDefined, <<Symbol("_helper", TRUE, 108), Symbol("_main", TRUE, 100)>>},
        i \in {{}, {104, 112}},
        e \in {None, Some(100)}}
    \cup {AnalyzerImage(PlainDefined, {}, Some(100), m, {104}) : m \in ImportLayouts}
    \cup {AnalyzerImage(PlainDefined, {108}, Some(100), <<>>, b) : b \in SUBSET {100, 108, 112}}

\* The elements of the set of numbers S in ascending order.
RECURSIVE sorted(_)
sorted(S) ==
    IF S = {} THEN <<>>
    ELSE LET least == CHOOSE x \in S : \A y \in S : x <= y
         IN  <<least>> \o sorted(S \ {least})

Min(a, b) == IF a <= b THEN a ELSE b

\* The function entry points of an image: the ObjC method implementations,
\* the symbols defined in a code section and the entry point. The entries of
\* __stubs are no part of the boundary table
\* (test_get_function_boundaries lists none of them).
function_entry_points(image) ==
    image.objc_imps
    \cup {image.symtab[i].n_value : i \in {j \in 1..image.iundefsym : image.symtab[j].n_sect}}
    \cup (IF image.entry_point = None THEN {} ELSE {image.entry_point[1]})

\* Faulty variant: a function ends at its last instruction (an inclusive end).
function_boundaries_InclusiveEnd(image) ==
    LET entries == sorted(function_entry_points(image))
    IN  [i \in 1..Len(entries) |->
            <<entries[i],
              (IF i < Len(entries) THEN Min(entries[i + 1], image.text.end)
               ELSE image.text.end) - InstructionSize>>]

\* The boundary table: the entries in ascending order, each paired with its
\* exclusive end, the smaller of the next entry and the end of the section.
function_boundaries(image) ==
    LET entries == sorted(function_entry_points(image))
    IN  [i \in 1..Len(entries) |->
            <<entries[i],
              IF i < Len(entries) THEN Min(entries[i + 1], image.text.end)
              ELSE image.text.end>>]

\* imported_symbols: the names of the undefined slice of the symbol table.
imported_symbols(image) ==
    {image.symtab[i].name : i \in (image.iundefsym + 1)..(image.iundefsym + image.nundefsym)}

\* Faulty variant: the lazy-bind stream is not decoded.
dyld_bound_symbols_BindOnly(image) == image.binds

\* dyld_bound_symbols: the pointer slots the bind and the lazy-bind streams
\* bind, each with the symbol bound there.
dyld_bound_symbols(image) == image.binds \cup image.lazy_binds

\* imp_stubs: the entries of __stubs at their fixed stride, each with the
\* pointer slot it dereferences as its destination.
imp_stubs(image) ==
    [k \in 1..Len(image.stubs) |->
        [address |-> StubsAddr + StubSize * (k - 1), destination |-> image.stubs[k]]]

\* imp_stubs_to_symbol_names: each stub paired with the name of the
\* dyld-bound symbol at its destination; a stub whose destination is not
\* bound has no name.
imp_stubs_to_symbol_names(stubs, bound) ==
    UNION {{[address |-> stubs[k].address, name |-> rec.name] :
               rec \in {r \in bound : r.address = stubs[k].destination}} :
           k \in 1..Len(stubs)}

\* The callable-symbol index: the functions the symbol table defines in a
\* code section, the stubs and the dyld-bound pointer slots, the last two
\* bearing the imported name.
callable_symbols(image) ==
    {[address |-> image.symtab[i].n_value, name |-> image.symtab[i].name] :
        i \in {j \in 1..image.iundefsym : image.symtab[j].n_sect}}
    \cup imp_stubs_to_symbol_names(imp_stubs(image), dyld_bound_symbols(image))
    \cup dyld_bound_symbols(image)

\* A MachoAnalyzer for image img, with the tables its construction computes.
MachoAnalyzer(img) ==
    [image |-> img,
     function_boundaries |-> function_boundaries(images[img]),
     imported_symbols |-> imported_symbols(images[img]),
     dyld_bound_symbols |-> dyld_bound_symbols(images[img]),
     imp_stubs |-> imp_stubs(images[img]),
     imp_stubs_to_symbol_names |->
         imp_stubs_to_symbol_names(imp_stubs(images[img]), dyld_bound_symbols(images[img])),
     callable_symbols |-> callable_symbols(images[img])]

\* Faulty variant: a lookup that misses records the address in the index, without a name,
\* and returns that.
symbol_name_for_branch_destination_Recording(index, addr) ==
    IF \E sym \in index : sym.address = addr
    THEN [raised |-> "",
          value |-> Some((CHOOSE sym \in index : sym.address = addr).name),
          index |-> index]
    ELSE [raised |-> "", value |-> Some(""),
          index |-> index \cup {[address |-> addr, name |-> ""]}]

\* symbol_name_for_branch_destination(addr) on an analyzer with callable-symbol
\* index `index`: the name at addr, or UnknownBranchTarget; with the index as
\* the call leaves it.
symbol_name_for_branch_destination(index, addr) ==
    IF \E sym \in index : sym.address = addr
    THEN [raised |-> "",
          value |-> Some((CHOOSE sym \in index : sym.address = addr).name),
          index |-> index]
    ELSE [raised |-> "UnknownBranchTarget", value |-> None, index |-> index]

\* get_function_end_address(entry) on the analyzer with boundary table
\* boundaries, for an entry of the table.
get_function_end_address(boundaries, entry) ==
    LET i == CHOOSE k \in 1..Len(boundaries) : boundaries[k][1] = entry
    IN  boundaries[i][2]

\* Faulty variant: every call constructs an analyzer and registers it in place of the
\* one registered before.
get_analyzer_Uncached(registry, instances, img) ==
    [registry |-> [registry EXCEPT ![img] = Some(Len(instances) + 1)],
     instances |-> Append(instances, MachoAnalyzer(img)),
     analyzer |-> Len(instances) + 1]

\* MachoAnalyzer.get_analyzer(img): the analyzer registered for img, after
\* constructing and registering one when there is none.
get_analyzer(registry, instances, img) ==
    IF registry[img] # None
    THEN [registry |-> registry, instances |-> instances, analyzer |-> registry[img][1]]
    ELSE [registry |-> [registry EXCEPT ![img] = Some(Len(instances) + 1)],
          instances |-> Append(instances, MachoAnalyzer(img)),
          analyzer |-> Len(instances) + 1]

\* ---------------------------------------------------------------- ObjcFunctionAnalyzer

\* What the disassembler decodes at address: the instruction's address and
\* whether it is classified as a branch.
Instruction(image, address) ==
    [address |-> address, is_branch |-> address \in image.branches]

\* The instructions of the function from entry to its exclusive end, in
\* address order.
get_function_instructions(image, entry, end) ==
    [k \in 1..((end - entry) \div InstructionSize) |->
        Instruction(image, entry + InstructionSize * (k - 1))]

\* Faulty variant: the search starts after the instruction at start_index.
next_branch_after_instruction_index_Strict(instructions, start_index) ==
    LET later == {k \in 1..Len(instructions) :
                     k - 1 > start_index /\ instructions[k].is_branch}
    IN  IF later = {} THEN None
        ELSE Some(instructions[CHOOSE k \in later : \A j \in later : k <= j])

\* next_branch_after_instruction_index(start_index): the first branch at or
\* after the (0-based) index, None when none remains.
next_branch_after_instruction_index(instructions, start_index) ==
    LET later == {k \in 1..Len(instructions) :
                     k - 1 >= start_index /\ instructions[k].is_branch}
    IN  IF later = {} THEN None
        ELSE Some(instructions[CHOOSE k \in later : \A j \in later : k <= j])

\* ---------------------------------------------------------------- state machine

SelrefSections(ws) ==
    {None} \cup
    {Some([address |-> a, size |-> Len(w) * ws, words |-> w]) :
        a \in SelrefSectAddresses, w \in SeqUpTo(NamePtrs, MaxSelrefs)}

\* The symbol table of an image without undefined symbols.
NoUndefined ==
    [symtab : [stroff : StringTableOffsets],
     symtab_contents : {<<DefinedSymbol>>},
     dysymtab : {[iundefsym |-> 1, nundefsym |-> 0]},
     load_dylib_commands : {<<>>}]

\* The symbol tables of the images: one defined symbol, then the undefined
\* slice.
SymbolTables ==
    UNION {[symtab : [stroff : StringTableOffsets],
            symtab_contents : {<<DefinedSymbol>> \o u},
            dysymtab : {[iundefsym |-> 1, nundefsym |-> Len(u)]},
            load_dylib_commands : DylibCommandLists] :
              u \in SeqUpTo(UndefinedSymbols, MaxUndef)}

\* The record r with the fields of the record t added.
WithFields(r, t) ==
    [f \in DOMAIN r \cup DOMAIN t |-> IF f \in DOMAIN r THEN r[f] ELSE t[f]]

\* Images that vary in their ObjC sections and have no undefined symbols.
ObjcImages ==
    UNION {[virtual_base : VirtualBases, word_size : {ws},
            selref_sect : SelrefSections(ws),
            classlist : SeqUpTo(ClassPtrs, MaxClasses)] : ws \in WordSizes}

\* Images without ObjC sections that vary in their symbol table and dylibs.
DylibImages ==
    [virtual_base : VirtualBases, word_size : WordSizes,
     selref_sect : {None}, classlist : {<<>>}]

\* The word sizes of the 32-bit and the 64-bit images, and the bytes a
\* __objc_selrefs section may hold after its last whole word.
SelrefWordSizes == {4, 8}
SelrefSlack == {0, 3}

\* __objc_selrefs sections whose size need not be a multiple of the word
\* size; `words` are the words memory holds from the section's address on,
\* the last of them the word that the bytes after the last whole word begin.
SlackSelrefSections(ws) ==
    {Some([address |-> a, size |-> Len(w) * ws + slack,
           words |-> IF slack = 0 THEN w ELSE Append(w, 17)]) :
        a \in SelrefSectAddresses, w \in SeqUpTo(NamePtrs, MaxSelrefs),
        slack \in SelrefSlack}

\* Images without classes that vary in their word size and selrefs section.
SelrefImages ==
    UNION {[virtual_base : VirtualBases, word_size : {ws},
            selref_sect : SlackSelrefSections(ws),
            classlist : {<<>>}] : ws \in SelrefWordSizes}

Images ==
    {WithFields(i, t) : i \in ObjcImages, t \in NoUndefined}
    \cup {WithFields(i, t) : i \in DylibImages, t \in SymbolTables}
    \cup {WithFields(i, t) : i \in SelrefImages, t \in NoUndefined}

NoPaths == [name \in SymbolNames |-> None]

NoQuery ==
    [op |-> "none", arg |-> None, sel |-> None, origin |-> <<>>, imp |-> None,
     name |-> "", path |-> None, imps |-> <<>>]

\* Addresses a caller may ask about: every word slot of the selrefs section,
\* the slot one past the largest section, and None.
QueryArgs ==
    {None} \cup {Some(a + (k * ws)) :
                    a \in SelrefSectAddresses, ws \in WordSizes, k \in 0..MaxSelrefs}

\* An image without symbols, imports and branches.
EmptyImage == AnalyzerImage(<<>>, {}, None, <<>>, {})

NoAnalyzers == [i \in ImageIds |-> None]

NoneHandedOut == [i \in ImageIds |-> {}]

NoLookup ==
    [op |-> "none", analyzer |-> 0, arg |-> None, value |-> None, raised |-> ""]

\* ObjcRuntimeDataParser.__init__ is about to run on some image.
Init ==
    /\ binary \in Images
    /\ pc = "selrefs"
    /\ cursor = 0
    /\ selrefs = <<>>
    /\ classes = <<>>
    /\ parsed_from = <<>>
    /\ sym_to_dylib_path = NoPaths
    /\ query = NoQuery
    /\ images = [i \in ImageIds |-> EmptyImage]
    /\ analyzer_registry = NoAnalyzers
    /\ analyzer_instances = <<>>
    /\ handed_out = NoneHandedOut
    /\ raised_before = FALSE
    /\ lookup = NoLookup

\* Step 1 of __init__: self._selrefs = self._parse_selrefs()
ParseSelrefs ==
    /\ pc = "selrefs"
    /\ selrefs' = parse_selrefs(binary)
    /\ pc' = "classes"
    /\ cursor' = 1
    /\ UNCHANGED analyzer_vars
    /\ UNCHANGED <<binary, classes, parsed_from, sym_to_dylib_path, query>>

\* Step 2 of __init__, one classlist pointer: an exception leaves __init__.
ParseClass ==
    /\ pc = "classes"
    /\ cursor <= Len(binary.classlist)
    /\ \E beyond \in BeyondOutcomes :
          LET r == parse_classlist_entry(binary, selrefs, binary.classlist[cursor], beyond)
          IN  /\ pc' = IF r.kind = "raise" THEN "failed" ELSE "classes"
              /\ classes' = IF r.kind = "class" THEN Append(classes, r.cls[1]) ELSE classes
              /\ parsed_from' = IF r.kind = "class"
                                THEN Append(parsed_from, History(binary, cursor, beyond))
                                ELSE parsed_from
              /\ cursor' = IF r.kind = "raise" THEN cursor ELSE cursor + 1
    /\ UNCHANGED analyzer_vars
    /\ UNCHANGED <<binary, selrefs, sym_to_dylib_path, query>>

\* Step 2 of __init__ returns: self.classes is set.
FinishClasses ==
    /\ pc = "classes"
    /\ cursor > Len(binary.classlist)
    /\ pc' = "dylibs"
    /\ UNCHANGED analyzer_vars
    /\ UNCHANGED <<binary, cursor, selrefs, classes, parsed_from, sym_to_dylib_path, query>>

\* Step 3 of __init__: self._sym_to_dylib_path = self._parse_linked_dylib_symbols();
\* the parser is usable afterwards, unless an exception leaves __init__.
ParseLinkedDylibSymbols ==
    /\ pc = "dylibs"
    /\ LET r == parse_linked_dylib_symbols(binary)
       IN  /\ pc' = IF r = None THEN "failed" ELSE "ready"
           /\ sym_to_dylib_path' = IF r = None THEN sym_to_dylib_path ELSE r[1]
    /\ UNCHANGED analyzer_vars
    /\ UNCHANGED <<binary, cursor, selrefs, classes, parsed_from, query>>

\* Faulty variant: a selector synthesised for an external selref is kept, in a class
\* without name appended to self.classes.
SelectorForSelref_Caching ==
    /\ pc = "ready"
    /\ \E arg \in QueryArgs :
          LET sel == selector_for_selref(classes, selrefs, arg)
          IN  /\ query' = [op |-> "selector_for_selref", arg |-> arg, sel |-> sel,
                           origin |-> first_local_selector(classes, arg),
                           imp |-> None, name |-> "", path |-> None, imps |-> <<>>]
              /\ classes' = IF sel # None /\ first_local_selector(classes, arg) = <<>>
                            THEN Append(classes, ObjcClass("", <<sel[1]>>))
                            ELSE classes
    /\ UNCHANGED analyzer_vars
    /\ UNCHANGED <<binary, pc, cursor, selrefs, parsed_from, sym_to_dylib_path>>

\* A call of selector_for_selref(arg) on the constructed parser.
SelectorForSelref ==
    /\ pc = "ready"
    /\ \E arg \in QueryArgs :
          query' = [op |-> "selector_for_selref", arg |-> arg,
                    sel |-> selector_for_selref(classes, selrefs, arg),
                    origin |-> first_local_selector(classes, arg),
                    imp |-> None, name |-> "", path |-> None, imps |-> <<>>]
    /\ UNCHANGED analyzer_vars
    /\ UNCHANGED <<binary, pc, cursor, selrefs, classes, parsed_from, sym_to_dylib_path>>

\* A call of imp_for_selref(arg) on the analyzer of the constructed parser.
ImpForSelref ==
    /\ pc = "ready"
    /\ \E arg \in QueryArgs :
          query' = [op |-> "imp_for_selref", arg |-> arg,
                    sel |-> None, origin |-> <<>>,
                    imp |-> imp_for_selref(classes, selrefs, arg),
                    name |-> "", path |-> None, imps |-> <<>>]
    /\ UNCHANGED analyzer_vars
    /\ UNCHANGED <<binary, pc, cursor, selrefs, classes, parsed_from, sym_to_dylib_path>>

\* A call of path_for_external_symbol(symbol) on the constructed parser.
PathForExternalSymbol ==
    /\ pc = "ready"
    /\ \E symbol \in SymbolNames :
          query' = [op |-> "path_for_external_symbol", arg |-> None,
                    sel |-> None, origin |-> <<>>, imp |-> None,
                    name |-> symbol,
                    path |-> path_for_external_symbol(sym_to_dylib_path, symbol),
                    imps |-> <<>>]
    /\ UNCHANGED analyzer_vars
    /\ UNCHANGED <<binary, pc, cursor, selrefs, classes, parsed_from, sym_to_dylib_path>>

\* Selector names a caller may ask the implementations of.
MethodNames == {"init", "", "viewDidLoad"}

\* A call of get_method_imp_addresses(selector) on the constructed parser.
GetMethodImpAddresses ==
    /\ pc = "ready"
    /\ \E selector \in MethodNames :
          query' = [op |-> "get_method_imp_addresses", arg |-> None,
                    sel |-> None, origin |-> <<>>, imp |-> None,
                    name |-> selector, path |-> None,
                    imps |-> get_method_imp_addresses(classes, selector)]
    /\ UNCHANGED analyzer_vars
    /\ UNCHANGED <<binary, pc, cursor, selrefs, classes, parsed_from, sym_to_dylib_path>>

Next ==
    \/ ParseSelrefs
    \/ ParseClass
    \/ FinishClasses
    \/ ParseLinkedDylibSymbols
    \/ PathForExternalSymbol
    \/ SelectorForSelref
    \/ ImpForSelref
    \/ GetMethodImpAddresses

Spec == Init /\ [][Next]_vars

\* ---------------------------------------------------------------- MachoAnalyzer state machine

\* The ObjC parser of an image without ObjC sections and undefined symbols,
\* constructed.
PlainBinary ==
    [virtual_base |-> 16, word_size |-> 8, selref_sect |-> None, classlist |-> <<>>,
     symtab |-> [stroff |-> 160], symtab_contents |-> <<DefinedSymbol>>,
     dysymtab |-> [iundefsym |-> 1, nundefsym |-> 0], load_dylib_commands |-> <<>>]

\* A session holds its Images; no analyzer has been asked for.
AnalyzerInit ==
    /\ binary = PlainBinary
    /\ pc = "ready"
    /\ cursor = 1
    /\ selrefs = <<>>
    /\ classes = <<>>
    /\ parsed_from = <<>>
    /\ sym_to_dylib_path = NoPaths
    /\ query = NoQuery
    /\ images \in [ImageIds -> AnalyzerImages]
    /\ analyzer_registry = NoAnalyzers
    /\ analyzer_instances = <<>>
    /\ handed_out = NoneHandedOut
    /\ raised_before = FALSE
    /\ lookup = NoLookup

\* A call of MachoAnalyzer.get_analyzer(img).
GetAnalyzer ==
    /\ \E img \in ImageIds :
          LET r == get_analyzer(analyzer_registry, analyzer_instances, img)
          IN  /\ analyzer_registry' = r.registry
              /\ analyzer_instances' = r.instances
              /\ handed_out' = [handed_out EXCEPT ![img] = @ \cup {r.analyzer}]
              /\ lookup' = [NoLookup EXCEPT !.op = "get_analyzer", !.arg = Some(img),
                                            !.analyzer = r.analyzer]
    /\ UNCHANGED <<images, raised_before, parser_vars>>

\* The analyzers a caller holds.
Analyzers == 1..Len(analyzer_instances)

\* A call of get_function_boundaries() on an analyzer.
GetFunctionBoundaries ==
    /\ \E a \in Analyzers :
          lookup' = [NoLookup EXCEPT !.op = "get_function_boundaries", !.analyzer = a,
                         !.value = Some(analyzer_instances[a].function_boundaries)]
    /\ UNCHANGED <<images, analyzer_registry, analyzer_instances, handed_out, raised_before, parser_vars>>

\* A call of get_function_end_address(entry) on an analyzer, for one of its
\* function entries.
GetFunctionEndAddress ==
    /\ \E a \in Analyzers :
          LET boundaries == analyzer_instances[a].function_boundaries
          IN  \E k \in 1..Len(boundaries) :
                 lookup' = [NoLookup EXCEPT !.op = "get_function_end_address",
                                !.analyzer = a, !.arg = Some(boundaries[k][1]),
                                !.value = Some(get_function_end_address(
                                                   boundaries, boundaries[k][1]))]
    /\ UNCHANGED <<images, analyzer_registry, analyzer_instances, handed_out, raised_before, parser_vars>>

\* Addresses a caller may ask the name of: the instructions of __text, the
\* stubs, the pointer slots, and addresses of no section.
BranchDestinations ==
    TextAddresses
    \cup {StubsAddr + StubSize * k : k \in 0..1}
    \cup {PointerSlotsAddr + PointerSize * k : k \in 0..1}
    \cup {0, 999}

\* A call of symbol_name_for_branch_destination(addr) on an analyzer.
SymbolNameForBranchDestination ==
    /\ \E a \in Analyzers, addr \in BranchDestinations :
          LET r == symbol_name_for_branch_destination(
                       analyzer_instances[a].callable_symbols, addr)
          IN  /\ lookup' = [NoLookup EXCEPT !.op = "symbol_name_for_branch_destination",
                                !.analyzer = a, !.arg = Some(addr),
                                !.value = r.value, !.raised = r.raised]
              /\ analyzer_instances' =
                    [analyzer_instances EXCEPT ![a].callable_symbols = r.index]
              /\ raised_before' = (raised_before \/ r.raised # "")
    /\ UNCHANGED <<images, analyzer_registry, handed_out, parser_vars>>

\* A call of next_branch_after_instruction_index(index) on the function
\* analyzer of a function of an analyzer, for an index of its instructions.
NextBranchAfterInstructionIndex ==
    /\ \E a \in Analyzers :
          LET boundaries == analyzer_instances[a].function_boundaries
          IN  \E k \in 1..Len(boundaries) :
                 LET instructions == get_function_instructions(
                         images[analyzer_instances[a].image],
                         boundaries[k][1], boundaries[k][2])
                 IN  \E index \in 0..(Len(instructions) - 1) :
                        lookup' = [NoLookup EXCEPT
                                      !.op = "next_branch_after_instruction_index",
                                      !.analyzer = a,
                                      !.arg = Some(<<boundaries[k][1], index>>),
                                      !.value = next_branch_after_instruction_index(
                                                    instructions, index)]
    /\ UNCHANGED <<images, analyzer_registry, analyzer_instances, handed_out, raised_before, parser_vars>>

AnalyzerNext ==
    \/ GetAnalyzer
    \/ GetFunctionBoundaries
    \/ GetFunctionEndAddress
    \/ SymbolNameForBranchDestination
    \/ NextBranchAfterInstructionIndex

AnalyzerSpec == AnalyzerInit /\ [][AnalyzerNext]_vars

\* ---------------------------------------------------------------- properties

\* Name pointers of the method entries read for the classes in `classes`.
LocalNamePtrs ==
    UNION {{parsed_from[c].entries[k].name : k \in 1..Len(parsed_from[c].entries)} :
              c \in 1..Len(parsed_from)}

SelrefIndices == 1..Len(selrefs)

\* The last query asked selector_for_selref about the source of selrefs[i].
AskedSelector(i) ==
    query.op = "selector_for_selref" /\ query.arg = Some(selrefs[i].source_address)

\* The last query asked imp_for_selref about the source of selrefs[i].
AskedImp(i) ==
    query.op = "imp_for_selref" /\ query.arg = Some(selrefs[i].source_address)

\* The last query's argument is None or no source address of a parsed selref.
AskedUnknown ==
    \A i \in SelrefIndices : query.arg # Some(selrefs[i].source_address)

\* C1: for every parsed selref S with literal L, selector_for_selref(S.source)
\* returns a selector, and that selector's name is L, whether it is a local
\* class's selector or a synthesised external one.
C1_SelrefResolvesToItsLiteral ==
    \A i \in SelrefIndices :
        AskedSelector(i) =>
            /\ query.sel # None
            /\ query.sel[1].name = selrefs[i].selector_literal

\* C1 witness: a selref was resolved through a local class, and another
\* selref of the same image has a different literal.
C1_Witness ==
    \E i, j \in SelrefIndices :
        /\ AskedSelector(i)
        /\ query.origin # <<>>
        /\ selrefs[j].selector_literal # selrefs[i].selector_literal

\* C2 (as claimed): for every selref S whose destination is the name pointer of
\* a method entry of a local class, selector_for_selref(S.source) returns a
\* selector held in `classes` that carries that method's implementation, also
\* when several selrefs share the destination.
C2_LocalSelrefReturnsLocalSelector ==
    \A i \in SelrefIndices :
        (AskedSelector(i) /\ selrefs[i].destination_address \in LocalNamePtrs) =>
            /\ query.origin # <<>>
            /\ query.sel = Some(classes[query.origin[1]].selectors[query.origin[2]])
            /\ LET ent == parsed_from[query.origin[1]].entries[query.origin[2]]
               IN  /\ ent.name = selrefs[i].destination_address
                   /\ query.sel[1].implementation
                        = Some(ClearLowTwoBits(ent.implementation))

\* C3: for a parsed selref S whose destination is the name pointer of no method
\* of a local class, selector_for_selref(S.source) returns a synthetic selector
\* (name = S's literal, selref = S, no implementation, external), and
\* imp_for_selref(S.source) is None.
C3_ExternalSelrefIsSynthesised ==
    \A i \in SelrefIndices :
        selrefs[i].destination_address \notin LocalNamePtrs =>
            /\ AskedSelector(i) =>
                  /\ query.origin = <<>>
                  /\ query.sel = Some([name |-> selrefs[i].selector_literal,
                                       selref |-> Some(selrefs[i]),
                                       implementation |-> None,
                                       is_external_definition |-> TRUE])
            /\ AskedImp(i) => query.imp = None

\* C3 witness: a selref that no local method implements was asked about while
\* the image does define classes with methods.
C3_Witness ==
    \E i \in SelrefIndices :
        /\ AskedSelector(i)
        /\ selrefs[i].destination_address \notin LocalNamePtrs
        /\ LocalNamePtrs # {}
        /\ query.sel # None

\* C4: for None and for every address that is no parsed selref's source,
\* selector_for_selref and imp_for_selref both return None (the query ends
\* normally: the parser stays ready).
C4_UnknownSelrefIsAbsent ==
    (query.op # "none" /\ AskedUnknown) =>
        /\ pc = "ready"
        /\ query.sel = None
        /\ query.imp = None
        /\ query.origin = <<>>

\* C4 witness: selector_for_selref(None) was called on a parser that holds
\* selrefs and a local method without selref.
C4_Witness ==
    /\ query.op = "selector_for_selref"
    /\ query.arg = None
    /\ selrefs # <<>>
    /\ \E cs \in Places(classes) : classes[cs[1]].selectors[cs[2]].selref = None

\* Every selector the parser has produced: those of `classes` and the one the
\* last selector_for_selref call returned.
ProducedSelectors ==
    {classes[cs[1]].selectors[cs[2]] : cs \in Places(classes)}
    \cup (IF query.sel = None THEN {} ELSE {query.sel[1]})

\* C5 (as claimed): every selector the parser produces is marked external
\* exactly when it has no implementation address; so every selector built from
\* a method-list entry of a local class is non-external.
C5_ExternalIffNoImplementation ==
    /\ \A sel \in ProducedSelectors :
          sel.is_external_definition <=> (sel.implementation = None)
    /\ \A cs \in Places(classes) :
          ~classes[cs[1]].selectors[cs[2]].is_external_definition

\* C6: every parsed class has one selector per entry of its method list, in
\* method-list order: as many as the list declares (none when base_methods is
\* 0), the k-th built from the k-th entry, repeated entries kept.
C6_OneSelectorPerMethodEntry ==
    /\ Len(classes) = Len(parsed_from)
    /\ \A c \in 1..Len(classes) :
          /\ Len(classes[c].selectors) = parsed_from[c].declared
          /\ ~parsed_from[c].has_methlist => classes[c].selectors = <<>>
          /\ \A k \in 1..Len(classes[c].selectors) :
                LET sel == classes[c].selectors[k]
                    ent == parsed_from[c].entries[k]
                IN  /\ sel.name = CStrings[ent.name]
                    /\ sel.implementation = Some(ClearLowTwoBits(ent.implementation))

\* C6 witness: a class was parsed from a method list with two entries of the
\* same name and implementation, and holds both.
C6_Witness ==
    \E c \in 1..Len(classes) :
        /\ parsed_from[c].declared = 2
        /\ parsed_from[c].entries[1] = parsed_from[c].entries[2]
        /\ Len(classes[c].selectors) = 2

\* A method entry of a local class whose name pointer no selref points at.
Unreferenced(cs) ==
    \A i \in SelrefIndices :
        selrefs[i].destination_address # parsed_from[cs[1]].entries[cs[2]].name

\* C7: a method entry whose name pointer is no selref's destination gives a
\* selector with null selref and the entry's masked implementation, and
\* selector_for_selref returns that selector for no argument.
C7_UnreferencedMethodHasNoSelref ==
    \A cs \in Places(classes) :
        Unreferenced(cs) =>
            LET sel == classes[cs[1]].selectors[cs[2]]
                ent == parsed_from[cs[1]].entries[cs[2]]
            IN  /\ sel.selref = None
                /\ sel.implementation = Some(ClearLowTwoBits(ent.implementation))
                /\ query.op = "selector_for_selref" =>
                      /\ query.origin # cs
                      /\ query.sel # Some(sel)

\* C7 witness: selector_for_selref(None) was called while a local class has a
\* method that no selref names and another that a selref does name.
C7_Witness ==
    /\ query.op = "selector_for_selref"
    /\ query.arg = None
    /\ \E cs, ds \in Places(classes) : Unreferenced(cs) /\ ~Unreferenced(ds)

\* An exception left __init__ while the classlist entry at cursor was parsed.
FailedOnClass == pc = "failed" /\ cursor <= Len(binary.classlist)

\* Indices of the classlist entries among the first n whose data.name pointer
\* is not below the virtual base.
KeptIndices(n) ==
    {i \in 1..n : ~ImgNameBelowBase(binary, binary.classlist[i])}

\* C8: a classlist entry whose data.name pointer is below the virtual base is
\* left out without an error, and the entries parsed so far that are not below
\* the base (one equal to the base included) are in `classes` in classlist
\* order.
C8_ClassBelowVirtualBaseSkipped ==
    /\ FailedOnClass => ~ImgNameBelowBase(binary, binary.classlist[cursor])
    /\ Len(classes) = Len(parsed_from)
    /\ {parsed_from[c].index : c \in 1..Len(parsed_from)} = KeptIndices(cursor - 1)
    /\ \A c, d \in 1..Len(parsed_from) :
          c < d => parsed_from[c].index < parsed_from[d].index
    /\ \A c \in 1..Len(classes) :
          classes[c].name
             = CStrings[ImgData(binary, binary.classlist[parsed_from[c].index])[1].name]

\* C8 witness: construction ended on a classlist whose first class has a name
\* pointer below the base and whose second has one equal to the base; only the
\* second is in `classes`.
C8_Witness ==
    /\ pc = "ready"
    /\ Len(binary.classlist) = 2
    /\ ImgNameBelowBase(binary, binary.classlist[1])
    /\ ImgData(binary, binary.classlist[2])[1].name = binary.virtual_base
    /\ Len(classes) = 1

\* C9 (as claimed): a class whose data or base_methods pointer lies outside
\* every segment is only skipped: construction does not fail on it.
C9_MalformedClassOnlySkipped ==
    FailedOnClass => ~ImgUnmapped(binary, binary.classlist[cursor])

\* The class at ptr has a method list that declares more entries than are
\* present.
ImgShortMethlist(bin, ptr) ==
    /\ ~ImgUnmapped(bin, ptr)
    /\ ~ImgNameBelowBase(bin, ptr)
    /\ ImgMethlist(bin, ptr) # None
    /\ ImgMethlist(bin, ptr)[1].methcount > Len(ImgMethlist(bin, ptr)[1].entries)

\* C10 (as claimed): a method list that declares more entries than are present
\* gives a selectors list cut to the entries present, and the parse does not
\* fail on it.
C10_ShortMethodListTruncated ==
    /\ FailedOnClass => ~ImgShortMethlist(binary, binary.classlist[cursor])
    /\ \A c \in 1..Len(classes) :
          parsed_from[c].declared > parsed_from[c].available =>
              Len(classes[c].selectors) = parsed_from[c].available

\* Positions in symtab_contents (from 1) of the undefined slice
\* iundefsym .. iundefsym + nundefsym - 1.
UndefinedSlice ==
    {binary.dysymtab.iundefsym + k : k \in 1..binary.dysymtab.nundefsym}

\* Name and library ordinal of the symbol at position p of symtab_contents.
SymbolNameAt(p) == SymbolStrings[binary.symtab.stroff + binary.symtab_contents[p].n_strx]

OrdinalAt(p) == (binary.symtab_contents[p].n_desc \div 256) % 256

\* Install name of a dylib load command: the string at name.offset within the
\* command, the header being mapped at the virtual base.
InstallName(cmd) == CStrings[binary.virtual_base + cmd.fileoff + cmd.name_offset]

\* C11 (as claimed): for every symbol of the undefined slice,
\* path_for_external_symbol(its name) returns the install name of the dylib
\* load command at 1-indexed position (n_desc >> 8) & 0xff; for a name that no
\* undefined symbol bears it returns None.
C11_UndefinedSymbolResolvesToItsDylib ==
    query.op = "path_for_external_symbol" =>
        /\ \A p \in UndefinedSlice :
              SymbolNameAt(p) = query.name =>
                  /\ OrdinalAt(p) \in 1..Len(binary.load_dylib_commands)
                  /\ query.path
                       = Some(InstallName(binary.load_dylib_commands[OrdinalAt(p)]))
        /\ (\A p \in UndefinedSlice : SymbolNameAt(p) # query.name) =>
              query.path = None

\* ------------------------------------------------------------------- C12

\* C12: the implementation address stored in a selector of a local class is
\* the method entry's imp with its low two bits cleared: it is a multiple of 4,
\* not above imp, and agrees with imp in all bits above the low two.
C12_ImplementationLowBitsCleared ==
    \A cs \in Places(classes) :
        LET sel == classes[cs[1]].selectors[cs[2]]
            imp == parsed_from[cs[1]].entries[cs[2]].implementation
        IN  /\ sel.implementation # None
            /\ sel.implementation[1] % 4 = 0
            /\ sel.implementation[1] \div 4 = imp \div 4

\* C12 witness: a selector was built from an entry whose imp has a flag bit
\* set, and stores the address without it.
C12_Witness ==
    \E cs \in Places(classes) :
        /\ parsed_from[cs[1]].entries[cs[2]].implementation = 105
        /\ classes[cs[1]].selectors[cs[2]].implementation = Some(104)

\* ------------------------------------------------------------------- C13

\* C13: get_analyzer is memoized per Image: all calls made with one Image
\* returned the same instance, the last call returned the instance registered
\* for its Image, and no two analyzers were constructed for one Image.
C13_AnalyzerMemoizedPerImage ==
    /\ \A img \in ImageIds : Cardinality(handed_out[img]) <= 1
    /\ lookup.op = "get_analyzer" =>
          /\ handed_out[lookup.arg[1]] = {lookup.analyzer}
          /\ analyzer_instances[lookup.analyzer].image = lookup.arg[1]
    /\ \A a, b \in 1..Len(analyzer_instances) :
          analyzer_instances[a].image = analyzer_instances[b].image => a = b

\* C13 witness: both Images have an analyzer, two different instances, and
\* the last call was made with the Image whose analyzer was constructed first.
C13_Witness ==
    /\ Len(analyzer_instances) = 2
    /\ lookup.op = "get_analyzer"
    /\ lookup.analyzer = 1
    /\ \A img \in ImageIds : Cardinality(handed_out[img]) = 1

\* ------------------------------------------------------------------- C14

C15_StubsResolveToBoundImports ==
    \A a \in Analyzers :
        LET an == analyzer_instances[a]
        IN  /\ \A k \in 1..Len(an.imp_stubs) :
                  \E rec \in an.dyld_bound_symbols :
                      /\ rec.address = an.imp_stubs[k].destination
                      /\ \A named \in an.imp_stubs_to_symbol_names :
                            named.address = an.imp_stubs[k].address =>
                                named.name = rec.name
                      /\ \E named \in an.imp_stubs_to_symbol_names :
                            named.address = an.imp_stubs[k].address
            /\ \A rec \in an.dyld_bound_symbols : rec.name \in an.imported_symbols

\* C15 witness: an analyzer of an image with a stub and a symbol bound
\* without a stub.
C15_Witness ==
    \E a \in Analyzers :
        LET an == analyzer_instances[a]
        IN  /\ Len(an.imp_stubs) = 1
            /\ Cardinality(an.dyld_bound_symbols) = 2
            /\ Cardinality(an.imported_symbols) = 2

\* ------------------------------------------------------------------- C16

\* The name the image of analyzer a gives the address addr: that of a function
\* the symbol table defines there, of the import whose stub is there, or of
\* the import bound to the pointer slot there; None when there is none.
NameInImage(a, addr) ==
    LET image == images[analyzer_instances[a].image]
        defined == {i \in 1..image.iundefsym :
                       image.symtab[i].n_sect /\ image.symtab[i].n_value = addr}
        slots == {r \in image.binds \cup image.lazy_binds :
                     \/ r.address = addr
                     \/ \E k \in 1..Len(image.stubs) :
                           /\ addr = StubsAddr + StubSize * (k - 1)
                           /\ image.stubs[k] = r.address}
    IN  IF defined # {} THEN Some(image.symtab[CHOOSE i \in defined : TRUE].name)
        ELSE IF slots # {} THEN Some((CHOOSE r \in slots : TRUE).name)
        ELSE None

\* C16: symbol_name_for_branch_destination(addr) returns the name the
\* callable-symbol index holds for addr and fails with UnknownBranchTarget for
\* an address not in the index; and the indexes of every analyzer stay what
\* its construction computed, whatever lookups failed before.
C16_UnknownBranchTargetRaises ==
    /\ lookup.op = "symbol_name_for_branch_destination" =>
          LET name == NameInImage(lookup.analyzer, lookup.arg[1])
          IN  /\ name # None => lookup.value = name /\ lookup.raised = ""
              /\ name = None => lookup.value = None /\ lookup.raised = "UnknownBranchTarget"
    /\ \A a \in Analyzers :
          analyzer_instances[a] = MachoAnalyzer(analyzer_instances[a].image)

\* C16 witness: after a lookup has failed, the lookup of a stub's address
\* returns the imported name.
C16_Witness ==
    /\ raised_before
    /\ lookup.op = "symbol_name_for_branch_destination"
    /\ lookup.arg = Some(StubsAddr)
    /\ lookup.value = Some("_NSLog")

\* ------------------------------------------------------------------- C17

\* The addresses of the branch instructions of the function the last
\* next_branch_after_instruction_index call was about, at or after the
\* instruction of the index asked.
BranchesFromIndexAsked ==
    LET an == analyzer_instances[lookup.analyzer]
        entry == lookup.arg[1][1]
        from == entry + InstructionSize * lookup.arg[1][2]
    IN  {addr \in images[an.image].branches :
            /\ addr >= from
            /\ addr < get_function_end_address(an.function_boundaries, entry)}

\* C17: next_branch_after_instruction_index(i) returns absent when the
\* function has no branch at an index >= i, and otherwise the first
\* instruction at an index >= i that is a branch; its address is not below
\* that of instruction i.
C17_NextBranchIsFirstAtOrAfter ==
    lookup.op = "next_branch_after_instruction_index" =>
        /\ lookup.value = None <=> BranchesFromIndexAsked = {}
        /\ lookup.value # None =>
              /\ lookup.value[1].is_branch
              /\ lookup.value[1].address \in BranchesFromIndexAsked
              /\ \A addr \in BranchesFromIndexAsked : lookup.value[1].address <= addr
              /\ lookup.value[1].address >=
                    lookup.arg[1][1] + InstructionSize * lookup.arg[1][2]

\* C17 witness: asked at a branch instruction that a later branch follows,
\* the call returned the instruction asked at.
C17_Witness ==
    /\ lookup.op = "next_branch_after_instruction_index"
    /\ lookup.value # None
    /\ lookup.value[1].address = lookup.arg[1][1] + InstructionSize * lookup.arg[1][2]
    /\ Cardinality(BranchesFromIndexAsked) = 2

\* ------------------------------------------------------------------- C18

\* C18: once the selrefs pass has run, the selref list has
\* floor(section size / word size) selrefs in section order, the i-th (from 0)
\* with source_address = section address + i * word size, the pointer stored
\* there as destination_address and the C string there as literal, an empty
\* literal included; without a __objc_selrefs section the list is empty; and
\* the pass itself never fails.
C18_OneSelrefPerSectionWord ==
    /\ pc = "selrefs" <=> cursor = 0
    /\ pc # "selrefs" =>
          IF binary.selref_sect = None THEN selrefs = <<>>
          ELSE LET sect == binary.selref_sect[1]
                   ws == binary.word_size
               IN  /\ Len(selrefs) * ws <= sect.size
                   /\ sect.size < (Len(selrefs) + 1) * ws
                   /\ \A i \in 0..(Len(selrefs) - 1) :
                         /\ selrefs[i + 1].source_address = sect.address + i * ws
                         /\ selrefs[i + 1].destination_address = sect.words[i + 1]
                         /\ selrefs[i + 1].selector_literal = CStrings[sect.words[i + 1]]

\* C18 witness: a 32-bit image whose section ends 3 bytes after its second
\* word gave two selrefs, the second with an empty literal.
C18_Witness ==
    /\ pc = "ready"
    /\ binary.word_size = 4
    /\ binary.selref_sect # None
    /\ binary.selref_sect[1].size = 11
    /\ Len(selrefs) = 2
    /\ selrefs[2].source_address = binary.selref_sect[1].address + 4
    /\ selrefs[2].selector_literal = ""

\* ------------------------------------------------------------------- C19

PlacesAsked ==
    {cs \in Places(classes) :
        /\ classes[cs[1]].selectors[cs[2]].selref # None
        /\ Some(classes[cs[1]].selectors[cs[2]].selref[1].source_address) = query.arg}

\* C20: when selectors of local classes carry the selref asked about,
\* selector_for_selref returns the selector of the earliest such class in
\* class-list order, and in that class the earliest such entry in method-list
\* order.
C20_EarliestClassAndEntryWins ==
    (query.op = "selector_for_selref" /\ PlacesAsked # {}) =>
        /\ query.origin \in PlacesAsked
        /\ query.sel = Some(classes[query.origin[1]].selectors[query.origin[2]])
        /\ \A cs \in PlacesAsked :
              \/ query.origin[1] < cs[1]
              \/ query.origin[1] = cs[1] /\ query.origin[2] <= cs[2]

\* C20 witness: two classes carry the selref asked about, with different
\* implementations, the first class twice; the first entry of the first class
\* was returned.
C20_Witness ==
    /\ query.op = "selector_for_selref"
    /\ query.origin = <<1, 1>>
    /\ \E cs \in PlacesAsked : cs[1] = 2 /\
          classes[2].selectors[cs[2]].implementation # query.sel[1].implementation
    /\ <<1, 2>> \in PlacesAsked

\* ------------------------------------------------------------------- C21

\* The method-list entries of the parsed classes whose name is the one the
\* last get_method_imp_addresses call asked about, as <<class, entry>>.
EntriesNamed ==
    {cs \in Places(classes) :
        CStrings[parsed_from[cs[1]].entries[cs[2]].name] = query.name}

\* The number of entries of EntriesNamed that come before cs or are cs, in
\* class-list and then method-list order.
RankAmongNamed(cs) ==
    Cardinality({other \in EntriesNamed :
                    \/ other[1] < cs[1]
                    \/ other[1] = cs[1] /\ other[2] <= cs[2]})

\* C21: get_method_imp_addresses(name) returns one implementation address per
\* method-list entry of a local class whose name is `name`, in class-list and
\* then method-list order, repeated entries included; so the empty list when
\* no local class has an entry of that name, also when a selref has it as
\* its literal.
C21_OneImpPerNamedEntry ==
    query.op = "get_method_imp_addresses" =>
        /\ Len(query.imps) = Cardinality(EntriesNamed)
        /\ \A cs \in EntriesNamed :
              query.imps[RankAmongNamed(cs)] =
                  Some(ClearLowTwoBits(parsed_from[cs[1]].entries[cs[2]].implementation))

\* C21 witness: the first class has two equal entries named "init" and the
\* second class one with another implementation; all three are returned, in
\* that order.
C21_Witness ==
    /\ query.op = "get_method_imp_addresses"
    /\ query.name = "init"
    /\ query.imps = <<Some(108), Some(108), Some(100)>>

\* ------------------------------------------------------------------- C22

\* The undefined symbols that bear the name the last path_for_external_symbol
\* call asked about.
UndefinedNamed == {p \in UndefinedSlice : SymbolNameAt(p) = query.name}

\* The install names of the dylib load commands of the image.
InstallNames ==
    {InstallName(binary.load_dylib_commands[n]) : n \in 1..Len(binary.load_dylib_commands)}

\* C22 (as claimed): when every undefined symbol of a name has a library
\* ordinal outside 1..N, N the number of dylib load commands (ordinal 0 in
\* particular), path_for_external_symbol(name) does not return the install
\* name of one of the N dylibs.
C22_OrdinalOutsideRangeHasNoDylib ==
    (/\ query.op = "path_for_external_symbol"
     /\ UndefinedNamed # {}
     /\ \A p \in UndefinedNamed : OrdinalAt(p) \notin 1..Len(binary.load_dylib_commands))
        => \A name \in InstallNames : query.path # Some(name)

====
